---- MODULE Spec2Model ----
(***************************************************************************)
(* Model of the notification lifecycle of                                  *)
(* react/features/notifications/actions.js: showNotification,              *)
(* hideNotification, setNotificationsEnabled, clearNotifications, the      *)
(* throttled join/leave batches, and the conference state listener.        *)
(*                                                                         *)
(* JavaScript values are encoded as follows.  undefined/null strings are   *)
(* "", the tri-state isMicMuted is "true" / "false" / "null", a thrown     *)
(* exception is the name of its class in the field threw ("none" when the  *)
(* handler returned normally).  A description string handed to JSON.parse  *)
(* is a record whose kind says what the parser does with it.               *)
(***************************************************************************)
EXTENDS Integers, Sequences, FiniteSets, TLC

VARIABLES
    enabledFlag,    \* getFeatureFlag(state, NOTIFICATIONS_ENABLED, true)
    notifications,  \* config.notifications: the display allow-list, or NoList
    enabled,        \* state['features/notifications'].enabled
    conference,     \* state['features/base/conference'].conference
    queue,          \* state['features/notifications'].notifications
    microtasks,     \* pending promise reactions (.then callbacks)
    now,            \* window.Date.now(), in ms
    names,          \* joinedParticipantsNames / leftParticipantsNames
    thr,            \* the state of each lodash throttle wrapper
    hist,           \* history of each batch: calls and flushes so far
    timers,         \* the Map timers: uid -> timer id
    timeouts,       \* the host's setTimeout table; a timer's id is its index
    lastOp          \* the handler that ran last, its inputs and its effects

vars == <<enabledFlag, notifications, enabled, conference, queue, microtasks,
          now, names, thr, hist, timers, timeouts, lastOp>>

-----------------------------------------------------------------------------
(* Bounds of the model *)

MaxQueue == 2
MaxNames == 3
MaxTime == 5000
TickMs == 1000
MaxLate == 1000
MaxParticipants == 4
MaxTimers == 3

(* Program constants *)

WAIT == 2000
SILENT_JOIN_THRESHOLD == 2
SILENT_LEFT_THRESHOLD == 3

Kinds == {"join", "left"}
ParticipantNames == {"A", "B"}
Conferences == {"none", "c1", "c2"}
Uids == {"", "u1", "u2"}
RAISE_HAND_NOTIFICATION_ID == "RAISE_HAND_NOTIFICATION_ID"

\* undefined where a number may stand: a time, a timer id, a duration.
Undefined == -1

-----------------------------------------------------------------------------
(* Payloads of showNotification *)

DeviceMessageTypes ==
    {"MESSAGE", "CONSULTATION_ENDED", "PAUSE_SESSION", "RESUME_SESSION", ""}

\* props.description as the caller passes it.  kind: "absent" (no field),
\* "empty" (the string ''), "bad" (JSON.parse throws), "null" (the text
\* 'null'), "obj" (the text of an object with the fields below).
NoFields == [deviceMessageType |-> "", handledAt |-> FALSE, sendTo |-> "",
             isRaisedHand |-> FALSE, content |-> "", id |-> "",
             senderInfo |-> ""]

ObjDescriptions ==
    { [kind |-> "obj", deviceMessageType |-> d, handledAt |-> h, sendTo |-> s,
       isRaisedHand |-> r, content |-> IF d = "MESSAGE" THEN "hello" ELSE "",
       id |-> IF d = "MESSAGE" THEN "m1" ELSE "",
       senderInfo |-> IF d = "MESSAGE" THEN "Ann" ELSE ""] :
        d \in DeviceMessageTypes, h \in BOOLEAN,
        s \in {"clinician", "patient"}, r \in BOOLEAN }

Descriptions ==
    { [kind |-> k] @@ NoFields : k \in {"absent", "empty", "bad", "null"} }
        \cup ObjDescriptions

KeyChoices ==
    { [titleKey |-> "", descriptionKey |-> ""],
      [titleKey |-> "k1", descriptionKey |-> ""],
      [titleKey |-> "", descriptionKey |-> "k2"] }

\* config.notifications: undefined, or a list of keys.
NoList == [configured |-> FALSE, keys |-> {}]

AllowLists ==
    {NoList} \cup { [configured |-> TRUE, keys |-> ks] : ks \in {{"k1"}, {"k2"}} }

Payloads ==
    { [uid |-> u, titleKey |-> k.titleKey, descriptionKey |-> k.descriptionKey,
       titleArguments |-> <<>>, description |-> d] :
        u \in Uids, k \in KeyChoices, d \in Descriptions }

\* The object with no fields, which is also what the default parameter makes
\* of a call without payload.
EmptyPayload ==
    [uid |-> "", titleKey |-> "", descriptionKey |-> "",
     titleArguments |-> <<>>, description |-> [kind |-> "absent"] @@ NoFields]

\* The payloads the lifecycle specification shows: one description for each
\* deviceMessageType, a raised hand that was handled and a payload without
\* description, each with and without a uid.
CoreDescriptions ==
    { d \in ObjDescriptions :
        \/ ~d.handledAt /\ d.sendTo = "clinician" /\ ~d.isRaisedHand
        \/ d.handledAt /\ d.sendTo = "patient" /\ d.isRaisedHand
                /\ d.deviceMessageType = "" }
        \cup { d \in Descriptions : d.kind = "absent" }

CorePayloads ==
    { p \in Payloads :
        /\ p.titleKey = "" /\ p.descriptionKey = ""
        /\ p.description \in CoreDescriptions }

-----------------------------------------------------------------------------
(* showNotification *)

\* isAudioMuted: the optional chaining makes a missing description, and a
\* description without the field, yield null.
IsAudioMuted(description) ==
    IF description.deviceMessageType = "PAUSE_SESSION" THEN "true"
    ELSE IF description.deviceMessageType = "RESUME_SESSION" THEN "false"
    ELSE "null"

\* if (props.description): the empty string and a missing field are falsy.
DescriptionTruthy(description) == description.kind \in {"bad", "null", "obj"}

\* What restructureProps throws: JSON.parse on text that is no JSON, or the
\* read of .id on the null that JSON.parse('null') returns.
RestructureThrows(props) ==
    IF props.description.kind = "bad" THEN "SyntaxError"
    ELSE IF props.description.kind = "null" THEN "TypeError"
    ELSE "none"

\* restructureProps.  Fields it does not set stay undefined: "" for
\* messageId and title, FALSE for isEndStream, "null" for isMicMuted.
RestructureProps(props) ==
    IF DescriptionTruthy(props.description)
    THEN props @@
         [messageId |-> IF props.description.id # "" THEN props.description.id
                        ELSE "raisAHand",
          title |-> IF props.description.senderInfo # ""
                    THEN props.description.senderInfo ELSE "ViCE",
          isEndStream |-> props.description.deviceMessageType = "CONSULTATION_ENDED",
          isMicMuted |-> IsAudioMuted(props.description)]
    ELSE props @@
         [messageId |-> "", title |-> "", isEndStream |-> FALSE,
          isMicMuted |-> "null"]

\* notifications.includes(key): a missing key is undefined, which no list of
\* strings includes.
Includes(list, key) == key # "" /\ key \in list.keys

\* The first operand of shouldDisplay reads props.description.handledAt
\* without optional chaining: with the flag set and no description field the
\* read throws.
ShouldDisplayThrows(props, flag) ==
    IF flag /\ props.description.kind = "absent" THEN "TypeError" ELSE "none"

\* shouldDisplay, grouped as JavaScript groups it: && binds tighter than ||.
ShouldDisplay(props, flag, list) ==
    LET d == props.description
        ended == d.deviceMessageType = "CONSULTATION_ENDED"
    IN  \/ (flag /\ ~d.handledAt)
        \/ (ended /\ d.sendTo = "clinician")
        \/ d.isRaisedHand
        \/ (ended /\ (\/ ~list.configured
                      \/ Includes(list, props.descriptionKey)
                      \/ Includes(list, props.titleKey)))

\* The resolution that takes the message content whatever the type is.
ResolveDescriptionContent(description) == description.content

\* The description text the displayed notification gets.
ResolveDescription(description) ==
    CASE description.deviceMessageType = "MESSAGE" -> description.content
      [] description.deviceMessageType = "CONSULTATION_ENDED" ->
            "Consulation phase has ended"
      [] description.deviceMessageType = "PAUSE_SESSION" -> "Session is paused"
      [] description.deviceMessageType = "RESUME_SESSION" -> "Session is resumed"
      [] OTHER -> "Raised a Hand"

\* The timeout chosen by truthiness: an unmuted microphone counts as unknown.
ShowTimeoutTruthy(isMicMuted) ==
    IF isMicMuted = "true" THEN "INSTANT" ELSE "LONG"

\* timeout of the SHOW_NOTIFICATION action.
ShowTimeout(isMicMuted) == IF isMicMuted # "null" THEN "INSTANT" ELSE "LONG"

\* The uid taken from the clock also when the caller supplies one.
ShowUidFromClock(props, time) == ToString(time)

\* uid of the SHOW_NOTIFICATION action: props.uid || Date.now().toString().
ShowUid(props, time) == IF props.uid # "" THEN props.uid ELSE ToString(time)

ShowEvent(props, time) ==
    [type |-> "SHOW_NOTIFICATION",
     props |-> [uid |-> props.uid, titleKey |-> props.titleKey,
                descriptionKey |-> props.descriptionKey,
                titleArguments |-> props.titleArguments,
                messageId |-> props.messageId, title |-> props.title,
                isEndStream |-> props.isEndStream,
                isMicMuted |-> props.isMicMuted,
                description |-> ResolveDescription(props.description)],
     timeout |-> ShowTimeout(IsAudioMuted(props.description)),
     uid |-> ShowUid(props, time)]

\* The thunk showNotification returns, run with the given feature flag,
\* allow-list and clock: what it throws and the actions it dispatches.
ShowNotification(payload, flag, list, time) ==
    IF RestructureThrows(payload) # "none"
    THEN [threw |-> RestructureThrows(payload), out |-> <<>>]
    ELSE LET props == RestructureProps(payload) IN
         IF ShouldDisplayThrows(props, flag) # "none"
         THEN [threw |-> ShouldDisplayThrows(props, flag), out |-> <<>>]
         ELSE IF ShouldDisplay(props, flag, list)
         THEN [threw |-> "none", out |-> <<ShowEvent(props, time)>>]
         ELSE [threw |-> "none", out |-> <<>>]

-----------------------------------------------------------------------------
(* getNotificationTimeout *)

\* NOTIFICATION_TIMEOUT_TYPE of ./constants, and the types a caller may pass
\* besides: one that is not recognised, and none ("").
NOTIFICATION_TIMEOUT_TYPE ==
    [SHORT |-> "short", MEDIUM |-> "medium", LONG |-> "long",
     STICKY |-> "sticky"]

TimeoutTypes == {"short", "medium", "long", "sticky", "other", ""}

\* NOTIFICATION_TIMEOUT of ./constants, in ms.  STICKY, the value that never
\* hides, is the constant false there; here it is a number no duration takes.
NOTIFICATION_TIMEOUT ==
    [SHORT |-> 2500, MEDIUM |-> 5000, LONG |-> 10000, STICKY |-> -2]

\* config.notificationTimeouts: undefined, or an object each of whose fields
\* short, medium and long is a duration in ms or missing (Undefined).
OverrideValues == {Undefined, 0, 1000}

NoTimeouts ==
    [configured |-> FALSE, short |-> Undefined, medium |-> Undefined,
     long |-> Undefined]

NotificationTimeouts ==
    {NoTimeouts} \cup
    { [configured |-> TRUE, short |-> a, medium |-> b, long |-> c] :
        a \in OverrideValues, b \in OverrideValues, c \in OverrideValues }

\* a || b: every falsy a, the duration 0 included, gives way to b.
Or(a, b) == IF a = Undefined \/ a = 0 THEN b ELSE a

\* a ?? b: only null and undefined give way to b.
Nullish(a, b) == IF a = Undefined THEN b ELSE a

\* The function with || in the place of ??.
GetNotificationTimeoutOr(type, notificationTimeouts) ==
    IF type = NOTIFICATION_TIMEOUT_TYPE.SHORT
    THEN Or(notificationTimeouts.short, NOTIFICATION_TIMEOUT.SHORT)
    ELSE IF type = NOTIFICATION_TIMEOUT_TYPE.MEDIUM
    THEN Or(notificationTimeouts.medium, NOTIFICATION_TIMEOUT.MEDIUM)
    ELSE IF type = NOTIFICATION_TIMEOUT_TYPE.LONG
    THEN Or(notificationTimeouts.long, NOTIFICATION_TIMEOUT.LONG)
    ELSE NOTIFICATION_TIMEOUT.STICKY

\* getNotificationTimeout(type, notificationTimeouts).  The optional
\* chaining reads undefined from a configuration that is not there.
GetNotificationTimeout(type, notificationTimeouts) ==
    IF type = NOTIFICATION_TIMEOUT_TYPE.SHORT
    THEN Nullish(notificationTimeouts.short, NOTIFICATION_TIMEOUT.SHORT)
    ELSE IF type = NOTIFICATION_TIMEOUT_TYPE.MEDIUM
    THEN Nullish(notificationTimeouts.medium, NOTIFICATION_TIMEOUT.MEDIUM)
    ELSE IF type = NOTIFICATION_TIMEOUT_TYPE.LONG
    THEN Nullish(notificationTimeouts.long, NOTIFICATION_TIMEOUT.LONG)
    ELSE NOTIFICATION_TIMEOUT.STICKY

-----------------------------------------------------------------------------
(* createTimeoutId and the Map timers *)

\* The uids a timer is created for.
TimerUids == {"u1", "u2"}

\* notification.timeout: a duration in ms, or a falsy value (0).
TimeoutValues == {0, 1000}

\* new Map()
TimersInit == [uid \in TimerUids |-> Undefined]

\* if (timeout)
CreatesTimer(timeout) == timeout # 0

\* setTimeout(callback, timeout) at the given time: the table with the new
\* timer, whose id is the table's new length.
SetTimeout(table, uid, timeout, time) ==
    Append(table, [uid |-> uid, due |-> time + timeout, pending |-> TRUE])

\* The timers of a uid that have not run yet.
PendingTimers(table, uid) ==
    {i \in 1..Len(table) : table[i].uid = uid /\ table[i].pending}

-----------------------------------------------------------------------------
(* The notifications reducer: the Notification Queue *)

InQueue(q, uid) == \E i \in 1..Len(q) : q[i].uid = uid

WithoutUid(q, uid) == SelectSeq(q, LAMBDA e : e.uid # uid)

\* A shown notification is appended; an entry with the same uid is replaced.
ReduceShow(q, ev) ==
    Append(WithoutUid(q, ev.uid),
           [uid |-> ev.uid, timeout |-> ev.timeout, props |-> ev.props])

ReduceHide(q, uid) == WithoutUid(q, uid)

ReduceClear(q) == <<>>

\* The queue after the given sequence of dispatched actions.
RECURSIVE Reduce(_, _)
Reduce(q, out) ==
    IF out = <<>> THEN q
    ELSE LET a == Head(out)
             q1 == CASE a.type = "SHOW_NOTIFICATION" -> ReduceShow(q, a)
                     [] a.type = "HIDE_NOTIFICATION" -> ReduceHide(q, a.uid)
                     [] a.type = "CLEAR_NOTIFICATIONS" -> ReduceClear(q)
                     [] OTHER -> q
         IN  Reduce(q1, Tail(out))

-----------------------------------------------------------------------------
(* hideNotification *)

\* The optional second argument: absent, or a notification whose props may
\* declare isMicMuted and isEndStream.
NoSnapshot == [present |-> FALSE,
               props |-> [isMicMuted |-> "null", isEndStream |-> FALSE]]

Snapshots ==
    {NoSnapshot} \cup
    { [present |-> TRUE, props |-> [isMicMuted |-> m, isEndStream |-> e]] :
        m \in {"true", "false", "null"}, e \in BOOLEAN }

\* The hide action without the conference.
HideEventNoConference(uid, conf) ==
    [type |-> "HIDE_NOTIFICATION", uid |-> uid, conference |-> "none"]

HideEvent(uid, conf) ==
    [type |-> "HIDE_NOTIFICATION", uid |-> uid, conference |-> conf]

MuteLocal(enable, mediaType) ==
    [type |-> "MUTE_LOCAL", enable |-> enable, mediaType |-> mediaType]

AppNavigate == [type |-> "APP_NAVIGATE", uri |-> ""]

\* The test written as a truthiness test: false is taken for undeclared.
HideMutesTruthy(snapshot) ==
    snapshot.present /\ snapshot.props.isMicMuted = "true"

\* if (notification) { if (notification.props.isMicMuted != null) ... }
HideMutes(snapshot) == snapshot.present /\ snapshot.props.isMicMuted # "null"

\* The navigation not guarded by isEndStream.
HideNavigatesAlways(snapshot) == snapshot.present

\* if (notification) { ... if (notification.props.isEndStream) ... }
HideNavigates(snapshot) == snapshot.present /\ snapshot.props.isEndStream

\* What the thunk dispatches before it returns.
HideOut(uid, snapshot, conf) ==
    (IF HideMutes(snapshot)
     THEN <<MuteLocal(snapshot.props.isMicMuted, "audio")>> ELSE <<>>)
    \o <<HideEvent(uid, conf)>>

\* The reaction it leaves on the promise of the dispatched hide.
HideThen(snapshot) == IF HideNavigates(snapshot) THEN <<AppNavigate>> ELSE <<>>

-----------------------------------------------------------------------------
(* lodash throttle(func, 2000, { leading: false }), which is                *)
(* debounce(func, 2000, { leading: false, maxWait: 2000, trailing: true }) *)

\* The option left at lodash's default.
LeadingDefault == TRUE

Leading == FALSE

\* The trailing edge switched off.
TrailingOff == FALSE

Trailing == TRUE

ThrottleInit ==
    [lastCallTime |-> Undefined, lastInvokeTime |-> 0, timerId |-> Undefined,
     lastArgs |-> FALSE]

\* shouldInvoke with a maximum wait of half the wait.
ShouldInvokeHalfMaxWait(t, time) ==
    \/ t.lastCallTime = Undefined
    \/ time - t.lastCallTime >= WAIT
    \/ time - t.lastCallTime < 0
    \/ time - t.lastInvokeTime >= WAIT \div 2

\* shouldInvoke(time), with maxWait = wait.
ShouldInvoke(t, time) ==
    \/ t.lastCallTime = Undefined
    \/ time - t.lastCallTime >= WAIT
    \/ time - t.lastCallTime < 0
    \/ time - t.lastInvokeTime >= WAIT

Min(a, b) == IF a <= b THEN a ELSE b

\* remainingWait(time), with maxWait = wait.
RemainingWait(t, time) ==
    Min(WAIT - (time - t.lastCallTime), WAIT - (time - t.lastInvokeTime))

\* invokeFunc(time): the wrapper's state when func starts to run.
InvokeFunc(t, time) == [t EXCEPT !.lastArgs = FALSE, !.lastInvokeTime = time]

\* A call of the throttled function at the given time: the wrapper's next
\* state, whether func runs within the call, and whether the call took the
\* leading edge.  The timer is kept as the time it is due.
ThrottleCall(t, time) ==
    LET t1 == [t EXCEPT !.lastArgs = TRUE, !.lastCallTime = time] IN
    IF ShouldInvoke(t, time)
    THEN IF t.timerId = Undefined
         THEN LET t2 == [t1 EXCEPT !.lastInvokeTime = time,
                                   !.timerId = time + WAIT]
              IN  [thr |-> IF Leading THEN InvokeFunc(t2, time) ELSE t2,
                   invoke |-> Leading, leading |-> TRUE]
         ELSE [thr |-> InvokeFunc([t1 EXCEPT !.timerId = time + WAIT], time),
               invoke |-> TRUE, leading |-> FALSE]
    ELSE [thr |-> IF t.timerId = Undefined
                  THEN [t1 EXCEPT !.timerId = time + WAIT] ELSE t1,
          invoke |-> FALSE, leading |-> FALSE]

\* timerExpired at the given time: the trailing edge, or the timer set again.
ThrottleTimerExpired(t, time) ==
    IF ShouldInvoke(t, time)
    THEN IF Trailing /\ t.lastArgs
         THEN [thr |-> InvokeFunc([t EXCEPT !.timerId = Undefined], time),
               invoke |-> TRUE]
         ELSE [thr |-> [t EXCEPT !.timerId = Undefined, !.lastArgs = FALSE],
               invoke |-> FALSE]
    ELSE [thr |-> [t EXCEPT !.timerId = time + RemainingWait(t, time)],
          invoke |-> FALSE]

-----------------------------------------------------------------------------
(* _throttledNotifyParticipantConnected and _throttledNotifyParticipantLeft *)

Threshold(kind) ==
    IF kind = "join" THEN SILENT_JOIN_THRESHOLD ELSE SILENT_LEFT_THRESHOLD

\* The comparison off by one.
IsSilentOffByOne(kind, participantCount) ==
    participantCount > Threshold(kind) + 1

\* participantCount > SILENT_JOIN_THRESHOLD (SILENT_LEFT_THRESHOLD)
IsSilent(kind, participantCount) == participantCount > Threshold(kind)

TemplateKey(kind, members) ==
    (IF kind = "join" THEN "notify.connected" ELSE "notify.left") \o members

\* notificationProps for a buffer that is not empty.
NotificationProps(kind, buf) ==
    [uid |-> "", descriptionKey |-> "",
     description |-> [kind |-> "absent"] @@ NoFields,
     titleKey |-> IF Len(buf) >= 3 THEN TemplateKey(kind, "ThreePlusMembers")
                  ELSE IF Len(buf) = 2 THEN TemplateKey(kind, "TwoMembers")
                  ELSE TemplateKey(kind, "OneMember"),
     titleArguments |-> IF Len(buf) = 2 THEN <<buf[1], buf[2]>> ELSE <<buf[1]>>]

\* The throttled function: the buffer it leaves, what reached the store and
\* what it threw.  The buffer is emptied by the last statement, which a
\* throwing dispatch does not reach.
Flush(kind, buf, participantCount, flag, list, time) ==
    IF IsSilent(kind, participantCount)
    THEN [names |-> <<>>, out |-> <<>>, threw |-> "none"]
    ELSE IF Len(buf) = 0
    THEN [names |-> <<>>, out |-> <<>>, threw |-> "none"]
    ELSE LET r == ShowNotification(NotificationProps(kind, buf), flag, list, time)
         IN  IF r.threw # "none"
             THEN [names |-> buf, out |-> <<>>, threw |-> r.threw]
             ELSE [names |-> <<>>, out |-> r.out, threw |-> "none"]

\* The history of a batch.  lead: the time of the last call that took the
\* leading edge of the throttle; pending: the names pushed by the calls no
\* flush has run after, and first: the time of the first of these calls;
\* flushes: the number of flushes since that leading call; flush: the last
\* flush, with the time of the last call before it.
NoFlush == [valid |-> FALSE, time |-> 0, lastCall |-> Undefined]

HistInit ==
    [lead |-> Undefined, pending |-> <<>>, first |-> Undefined,
     flushes |-> 0, flush |-> NoFlush]

\* The history after a call at the given time.
HistCall(h, name, time, leading) ==
    [h EXCEPT !.pending = Append(@, name),
              !.first = IF h.pending = <<>> THEN time ELSE @,
              !.lead = IF leading THEN time ELSE @,
              !.flushes = IF leading THEN 0 ELSE @]

\* The history after a flush at the given time.
HistFlush(h, time, lastCall) ==
    [h EXCEPT !.pending = <<>>, !.first = Undefined,
              !.flushes = Min(@ + 1, 2),
              !.flush = [valid |-> TRUE, time |-> time, lastCall |-> lastCall]]

-----------------------------------------------------------------------------
(* The notifications middleware *)

Roles == {"", "participant", "moderator"}

\* The actions that reach the middleware, each with what the middleware
\* reads from the store for it: disableModeratorIndicator of the config,
\* whether action.participant is the local participant, and the role the
\* store holds for that participant ("" when it holds none).
ParticipantUpdates ==
    { [type |-> "PARTICIPANT_UPDATED", disableModeratorIndicator |-> d,
       isLocal |-> l, oldRole |-> o, role |-> r] :
        d \in BOOLEAN, l \in BOOLEAN, o \in Roles, r \in Roles }

MiddlewareActions ==
    ParticipantUpdates \cup
    { [type |-> t, disableModeratorIndicator |-> FALSE, isLocal |-> FALSE,
       oldRole |-> "", role |-> ""] : t \in {"PARTICIPANTS_PANE_OPEN", "OTHER"} }

\* showNotification({ titleKey: 'notify.moderator' }, SHORT)
ModeratorPayload ==
    [uid |-> "", titleKey |-> "notify.moderator", descriptionKey |-> "",
     titleArguments |-> <<>>, description |-> [kind |-> "absent"] @@ NoFields]

\* oldRole && oldRole !== role && role === PARTICIPANT_ROLE.MODERATOR
BecomesModerator(action) ==
    /\ action.oldRole # ""
    /\ action.oldRole # action.role
    /\ action.role = "moderator"

\* The middleware returns next(action): the action is forwarded once.
Forwards(out) == [out |-> out, threw |-> "none", forwarded |-> 1]

\* An exception leaves the middleware before next(action) is reached.
Throws(threw) == [out |-> <<>>, threw |-> threw, forwarded |-> 0]

\* The middleware run on an action: what it dispatches, what it throws and
\* how many times it calls next(action).
Middleware(action, flag, list, conf, time) ==
    IF action.type = "PARTICIPANT_UPDATED"
    THEN IF action.disableModeratorIndicator THEN Forwards(<<>>)
         ELSE IF ~action.isLocal THEN Forwards(<<>>)
         ELSE IF BecomesModerator(action)
         THEN LET r == ShowNotification(ModeratorPayload, flag, list, time)
              IN  IF r.threw # "none" THEN Throws(r.threw)
                  ELSE Forwards(r.out)
         ELSE Forwards(<<>>)
    ELSE IF action.type = "PARTICIPANTS_PANE_OPEN"
    THEN Forwards(HideOut(RAISE_HAND_NOTIFICATION_ID, NoSnapshot, conf))
    ELSE Forwards(<<>>)

\* The raised-hand notification, shown under the id the participants pane
\* hides.
RaiseHandPayload ==
    [uid |-> RAISE_HAND_NOTIFICATION_ID, titleKey |-> "",
     descriptionKey |-> "", titleArguments |-> <<>>,
     description |-> [NoFields EXCEPT !.isRaisedHand = TRUE,
                                      !.sendTo = "clinician"]
                     @@ [kind |-> "obj"]]

-----------------------------------------------------------------------------
(* Initial state *)

NoOp == [kind |-> "init", out |-> <<>>, threw |-> "none"]

\* The feature flag is set by the embedding application; no allow-list is
\* configured unless the deployment's config supplies one.
Init ==
    /\ enabledFlag \in BOOLEAN
    /\ notifications = NoList
    /\ enabled = TRUE
    /\ conference = "c1"
    /\ queue = <<>>
    /\ microtasks = <<>>
    /\ now = 0
    /\ names = [k \in Kinds |-> <<>>]
    /\ thr = [k \in Kinds |-> ThrottleInit]
    /\ hist = [k \in Kinds |-> HistInit]
    /\ timers = TimersInit
    /\ timeouts = <<>>
    /\ lastOp = NoOp

\* The feature flag gated by the stored boolean as well.
EnabledFlagAndStored == enabledFlag /\ enabled

\* getFeatureFlag(getState(), NOTIFICATIONS_ENABLED, true)
EnabledFlag == enabledFlag

\* Promise reactions run before the next handler starts.
Idle == microtasks = <<>>

\* The queue stays within the model's bound.
Fits(q) == Len(q) <= MaxQueue

-----------------------------------------------------------------------------
(* Actions *)

\* dispatch(showNotification(payload))
Show(payload) ==
    /\ Idle
    /\ LET r == ShowNotification(payload, EnabledFlag, notifications, now) IN
        /\ Fits(Reduce(queue, r.out))
        /\ queue' = Reduce(queue, r.out)
        /\ lastOp' = [kind |-> "show", payload |-> payload, out |-> r.out,
                      threw |-> r.threw,
                      reused |-> r.out # <<>> /\ InQueue(queue, r.out[1].uid)]
    /\ UNCHANGED <<enabledFlag, notifications, enabled, conference,
                   microtasks, now, names, thr, hist,
                   timers, timeouts>>

\* The first notification of a session: showNotification on an empty queue.
ShowFirst(payload) == queue = <<>> /\ Show(payload)

\* dispatch(hideNotification(uid, snapshot))
Hide(uid, snapshot) ==
    /\ Idle
    /\ queue' = Reduce(queue, HideOut(uid, snapshot, conference))
    /\ microtasks' = HideThen(snapshot)
    /\ lastOp' = [kind |-> "hide", uid |-> uid, snapshot |-> snapshot,
                  out |-> HideOut(uid, snapshot, conference),
                  threw |-> "none"]
    /\ UNCHANGED <<enabledFlag, notifications, enabled, conference, now,
                   names, thr, hist,
                   timers, timeouts>>

\* The .then reaction of hideNotification: dispatch(appNavigate(undefined)).
RunMicrotask ==
    /\ microtasks # <<>>
    /\ microtasks' = Tail(microtasks)
    /\ lastOp' = [kind |-> "then", out |-> <<Head(microtasks)>>,
                  threw |-> "none", after |-> lastOp]
    /\ UNCHANGED <<enabledFlag, notifications, enabled, conference, queue,
                   now, names, thr, hist,
                   timers, timeouts>>

\* dispatch(setNotificationsEnabled(value))
SetNotificationsEnabled(value) ==
    /\ Idle
    /\ enabled' = value
    /\ queue' = queue
    /\ lastOp' = [kind |-> "setEnabled", value |-> value,
                  out |-> <<[type |-> "SET_NOTIFICATIONS_ENABLED",
                             enabled |-> value]>>,
                  threw |-> "none"]
    /\ UNCHANGED <<enabledFlag, notifications, conference, microtasks,
                   now, names, thr, hist,
                   timers, timeouts>>

\* The action clearNotifications returns.
ClearEvent == [type |-> "CLEAR_NOTIFICATIONS"]

\* dispatch(clearNotifications())
ClearNotifications ==
    /\ Idle
    /\ queue' = ReduceClear(queue)
    /\ lastOp' = [kind |-> "clear", cleared |-> Len(queue),
                  out |-> <<ClearEvent>>,
                  threw |-> "none"]
    /\ UNCHANGED <<enabledFlag, notifications, enabled, conference,
                   microtasks, now, names, thr, hist,
                   timers, timeouts>>

\* The listener clearing when a conference is entered instead.
ListenerClearsOnJoin(conf) == conf # "none"

\* The listener of the current conference: if (!conference).
ListenerClears(conf) == conf = "none"

\* The current conference changes and the state listener runs.  cleared is
\* the number of notifications the queue held when it ran.
ConferenceChanged(conf) ==
    /\ Idle
    /\ conf # conference
    /\ conference' = conf
    /\ queue' = Reduce(queue, IF ListenerClears(conf) THEN <<ClearEvent>>
                               ELSE <<>>)
    /\ lastOp' = [kind |-> "conference", conference |-> conf,
                  cleared |-> Len(queue),
                  out |-> IF ListenerClears(conf) THEN <<ClearEvent>> ELSE <<>>,
                  threw |-> "none"]
    /\ UNCHANGED <<enabledFlag, notifications, enabled, microtasks, now,
                   names, thr, hist,
                   timers, timeouts>>

\* Time passes.  A due timer runs at most MaxLate ms late.
Tick ==
    /\ Idle
    /\ now + TickMs <= MaxTime
    /\ \A k \in Kinds :
          thr[k].timerId # Undefined => now + TickMs <= thr[k].timerId + MaxLate
    /\ now' = now + TickMs
    /\ UNCHANGED <<enabledFlag, notifications, enabled, conference, queue,
                   microtasks, names, thr, hist, lastOp,
                   timers, timeouts>>

\* What a call of the throttled function, or its timer, leaves in lastOp.
\* The participant count is read by the flush alone.
BatchOp(opKind, kind, name, leading, flushed, participantCount, seen, t, h, f) ==
    [kind |-> opKind, batch |-> kind, name |-> name, leading |-> leading,
     flushed |-> flushed,
     participantCount |-> IF flushed THEN participantCount ELSE 0,
     seen |-> IF flushed THEN seen ELSE <<>>,
     calls |-> IF flushed THEN h.pending ELSE <<>>,
     firstCall |-> IF flushed THEN h.first ELSE Undefined,
     sinceInvoke |-> IF flushed THEN now - t.lastInvokeTime ELSE 0,
     sinceCall |-> IF flushed THEN now - t.lastCallTime ELSE 0,
     out |-> IF flushed THEN f.out ELSE <<>>,
     threw |-> IF flushed THEN f.threw ELSE "none"]

\* Each behaviour exercises one of the two batches: they share neither
\* buffer nor throttle wrapper.
OtherUnused(kind) ==
    \A k \in Kinds \ {kind} : thr[k].lastCallTime = Undefined

\* dispatch(showParticipantJoinedNotification(name)) or
\* dispatch(showParticipantLeftNotification(name)): the name is pushed and
\* the throttled function is called.
Notify(kind, name, participantCount) ==
    /\ Idle
    /\ OtherUnused(kind)
    /\ Len(names[kind]) < MaxNames
    /\ LET buf == Append(names[kind], name)
           c == ThrottleCall(thr[kind], now)
           f == Flush(kind, buf, participantCount, EnabledFlag, notifications,
                      now)
           h == HistCall(hist[kind], name, now, c.leading)
       IN
        /\ c.invoke \/ participantCount = 0
        /\ thr' = [thr EXCEPT ![kind] = c.thr]
        /\ names' = [names EXCEPT ![kind] = IF c.invoke THEN f.names ELSE buf]
        /\ hist' = [hist EXCEPT
                       ![kind] = IF c.invoke THEN HistFlush(h, now, now) ELSE h]
        /\ Fits(Reduce(queue, IF c.invoke THEN f.out ELSE <<>>))
        /\ queue' = Reduce(queue, IF c.invoke THEN f.out ELSE <<>>)
        /\ lastOp' = BatchOp("notify", kind, name, c.leading, c.invoke,
                             participantCount, buf, thr[kind], h, f)
    /\ UNCHANGED <<enabledFlag, notifications, enabled, conference,
                   microtasks, now,
                   timers, timeouts>>

\* The timer of a throttle wrapper runs.
TimerExpired(kind, participantCount) ==
    /\ Idle
    /\ thr[kind].timerId # Undefined
    /\ now >= thr[kind].timerId
    /\ LET c == ThrottleTimerExpired(thr[kind], now)
           f == Flush(kind, names[kind], participantCount, EnabledFlag,
                      notifications, now)
       IN
        /\ c.invoke \/ participantCount = 0
        /\ thr' = [thr EXCEPT ![kind] = c.thr]
        /\ names' = [names EXCEPT
                        ![kind] = IF c.invoke THEN f.names ELSE names[kind]]
        /\ hist' = [hist EXCEPT
                       ![kind] = IF c.invoke
                                 THEN HistFlush(@, now, thr[kind].lastCallTime)
                                 ELSE @]
        /\ Fits(Reduce(queue, IF c.invoke THEN f.out ELSE <<>>))
        /\ queue' = Reduce(queue, IF c.invoke THEN f.out ELSE <<>>)
        /\ lastOp' = BatchOp("timer", kind, "", FALSE, c.invoke,
                             participantCount, names[kind], thr[kind],
                             hist[kind], f)
    /\ UNCHANGED <<enabledFlag, notifications, enabled, conference,
                   microtasks, now,
                   timers, timeouts>>

\* getNotificationTimeout(type, notificationTimeouts) is called.
ResolveTimeout(type, notificationTimeouts) ==
    /\ Idle
    /\ lastOp' = [kind |-> "getTimeout", type |-> type,
                  notificationTimeouts |-> notificationTimeouts,
                  result |-> GetNotificationTimeout(type, notificationTimeouts),
                  out |-> <<>>, threw |-> "none"]
    /\ UNCHANGED <<enabledFlag, notifications, enabled, conference, queue,
                   microtasks, now, names, thr, hist,
                   timers, timeouts>>

\* createTimeoutId(notification, dispatch) with the notification's uid and
\* timeout: the timer is set and its id is stored under the uid.  A timer
\* stored under the uid before is neither cleared nor looked at.
CreateTimeoutId(uid, timeout) ==
    /\ Idle
    /\ Len(timeouts) < MaxTimers
    /\ IF CreatesTimer(timeout)
       THEN /\ timeouts' = SetTimeout(timeouts, uid, timeout, now)
            /\ timers' = [timers EXCEPT ![uid] = Len(timeouts) + 1]
       ELSE UNCHANGED <<timers, timeouts>>
    /\ lastOp' = [kind |-> "createTimeout", uid |-> uid, timeout |-> timeout,
                  id |-> IF CreatesTimer(timeout) THEN Len(timeouts) + 1
                         ELSE Undefined,
                  out |-> <<>>, threw |-> "none"]
    /\ UNCHANGED <<enabledFlag, notifications, enabled, conference, queue,
                   microtasks, now, names, thr, hist>>

\* The callback of a timer runs: dispatch(hideNotification(uid)).  The Map
\* is not touched.
TimeoutFires(id) ==
    /\ Idle
    /\ timeouts[id].pending
    /\ now >= timeouts[id].due
    /\ timeouts' = [timeouts EXCEPT ![id].pending = FALSE]
    /\ queue' = Reduce(queue, HideOut(timeouts[id].uid, NoSnapshot, conference))
    /\ microtasks' = HideThen(NoSnapshot)
    /\ lastOp' = [kind |-> "timeout", id |-> id, uid |-> timeouts[id].uid,
                  out |-> HideOut(timeouts[id].uid, NoSnapshot, conference),
                  threw |-> "none"]
    /\ UNCHANGED <<enabledFlag, notifications, enabled, conference, now,
                   names, thr, hist, timers>>

\* An action passes through the middleware.
MiddlewareRuns(action) ==
    /\ Idle
    /\ LET r == Middleware(action, EnabledFlag, notifications, conference, now)
       IN
        /\ Fits(Reduce(queue, r.out))
        /\ queue' = Reduce(queue, r.out)
        /\ lastOp' = [kind |-> "middleware", action |-> action,
                      forwarded |-> r.forwarded, out |-> r.out,
                      threw |-> r.threw]
    /\ UNCHANGED <<enabledFlag, notifications, enabled, conference,
                   microtasks, now, names, thr, hist, timers, timeouts>>

\* The uids hide is called with: those in the queue, and one that may not be.
HideUids == {"u1"} \cup {queue[i].uid : i \in 1..Len(queue)}

Next ==
    \/ \E payload \in CorePayloads : Show(payload)
    \/ \E uid \in HideUids, snapshot \in Snapshots : Hide(uid, snapshot)
    \/ RunMicrotask
    \/ \E value \in BOOLEAN : SetNotificationsEnabled(value)
    \/ ClearNotifications
    \/ \E conf \in Conferences : ConferenceChanged(conf)

Spec == Init /\ [][Next]_vars

\* showNotification over every payload, feature flag and allow-list.
InitShow ==
    /\ enabledFlag \in BOOLEAN
    /\ notifications \in AllowLists
    /\ enabled = TRUE
    /\ conference = "c1"
    /\ queue = <<>>
    /\ microtasks = <<>>
    /\ now = 0
    /\ names = [k \in Kinds |-> <<>>]
    /\ thr = [k \in Kinds |-> ThrottleInit]
    /\ hist = [k \in Kinds |-> HistInit]
    /\ timers = TimersInit
    /\ timeouts = <<>>
    /\ lastOp = NoOp

NextShow == \E payload \in Payloads : ShowFirst(payload)

SpecShow == InitShow /\ [][NextShow]_vars

NextBatch ==
    \/ \E kind \in Kinds, name \in ParticipantNames,
          participantCount \in 0..MaxParticipants :
            Notify(kind, name, participantCount)
    \/ \E kind \in Kinds, participantCount \in 0..MaxParticipants :
            TimerExpired(kind, participantCount)
    \/ Tick

SpecBatch == Init /\ [][NextBatch]_vars

\* The batches with the scheduling the host gives them: time passes and a
\* timer that is due runs.  Calls are made while the clock of the model
\* leaves room for the timer they set.
NotifyInTime(kind, name, participantCount) ==
    /\ now + WAIT <= MaxTime
    /\ Notify(kind, name, participantCount)

TimerRuns ==
    \E kind \in Kinds, participantCount \in 0..MaxParticipants :
        TimerExpired(kind, participantCount)

NextBatchFair ==
    \/ \E kind \in Kinds, name \in ParticipantNames,
          participantCount \in 0..MaxParticipants :
            NotifyInTime(kind, name, participantCount)
    \/ TimerRuns
    \/ Tick

SpecBatchFair ==
    Init /\ [][NextBatchFair]_vars /\ WF_vars(Tick) /\ WF_vars(TimerRuns)

\* getNotificationTimeout over every type and configuration.
NextTimeout ==
    \E type \in TimeoutTypes, notificationTimeouts \in NotificationTimeouts :
        ResolveTimeout(type, notificationTimeouts)

SpecTimeout == Init /\ [][NextTimeout]_vars

\* The auto-hide timers: creations, firings and hides, as time passes.
NextTimers ==
    \/ \E uid \in TimerUids, timeout \in TimeoutValues :
            CreateTimeoutId(uid, timeout)
    \/ \E id \in 1..Len(timeouts) : TimeoutFires(id)
    \/ \E uid \in TimerUids : Hide(uid, NoSnapshot)
    \/ Tick

SpecTimers == Init /\ [][NextTimers]_vars

\* The middleware over every action, feature flag and allow-list, with the
\* raised-hand notification shown in between.
NextMiddleware ==
    \/ \E action \in MiddlewareActions : MiddlewareRuns(action)
    \/ Show(RaiseHandPayload)

SpecMiddleware == InitShow /\ [][NextMiddleware]_vars

-----------------------------------------------------------------------------
(* Properties *)

IsShow(a) == a.type = "SHOW_NOTIFICATION"
IsHide(a) == a.type = "HIDE_NOTIFICATION"
IsMute(a) == a.type = "MUTE_LOCAL"
IsNavigate(a) == a.type = "APP_NAVIGATE"

\* Some / no action of the sequence satisfies the test.
Emits(out, Test(_)) == \E i \in 1..Len(out) : Test(out[i])

\* The last handler ran a flush of a batch.
Flushed == lastOp.kind \in {"notify", "timer"} /\ lastOp.flushed

IsSuffix(s, t) ==
    Len(s) <= Len(t) /\ SubSeq(t, Len(t) - Len(s) + 1, Len(t)) = s

\* C1: show emits a ShowEvent only if the notifications-enabled feature flag
\* is set: with the flag false no payload, the end-of-session and the
\* raised-hand payloads included, is shown.
C1_ShowOnlyIfFlag ==
    (lastOp.kind = "show" /\ Emits(lastOp.out, IsShow)) => enabledFlag

\* C2: a join or leave flush that runs with the participant count not above
\* the silence threshold emits exactly one notification: the one-member
\* template with the name for 1 name, the two-members template with both
\* names in order for 2, the three-plus template with the first name for 3
\* or more.
C2_FlushEmitsTemplate ==
    (Flushed /\ lastOp.participantCount <= Threshold(lastOp.batch)) =>
        LET n == Len(lastOp.seen)
            prefix == IF lastOp.batch = "join" THEN "notify.connected"
                      ELSE "notify.left"
        IN  /\ n >= 1
            /\ Len(lastOp.out) = 1
            /\ IsShow(lastOp.out[1])
            /\ lastOp.out[1].props.titleKey =
                    (IF n = 1 THEN prefix \o "OneMember"
                     ELSE IF n = 2 THEN prefix \o "TwoMembers"
                     ELSE prefix \o "ThreePlusMembers")
            /\ lastOp.out[1].props.titleArguments =
                    (IF n = 2 THEN <<lastOp.seen[1], lastOp.seen[2]>>
                     ELSE <<lastOp.seen[1]>>)

\* C3: after any flush of a batch its buffer is empty, whatever the buffer
\* size, the participant count and the outcome of the dispatch; and a step
\* takes names out of a buffer only by emptying it.
C3_BufferClearedByFlush ==
    /\ [](Flushed => names[lastOp.batch] = <<>>)
    /\ [][\A k \in Kinds :
            names'[k] = <<>> \/
            (Len(names[k]) <= Len(names'[k]) /\
             SubSeq(names'[k], 1, Len(names[k])) = names[k])]_vars

\* C4 as stated: calls that fall within a window shorter than 2000 ms are
\* seen by one flush, which sees all their names in call order.  So a call
\* the last flush has seen and a call made after that flush are never less
\* than 2000 ms apart.
C4_WindowOneFlush ==
    /\ Flushed => IsSuffix(lastOp.calls, lastOp.seen)
    /\ \A k \in Kinds :
        (hist[k].flush.valid /\ hist[k].first # Undefined) =>
            hist[k].first - hist[k].flush.lastCall >= WAIT

\* C4 as amended: the calls that fall within 2000 ms of a call that took the
\* leading edge of the throttle (the first call, or a call made 2000 ms or
\* more after the call before it with no flush pending) are seen by one flush:
\* the first flush after the leading call starts with that call's name and
\* sees the names of all calls since, in call order, and no call made after
\* a flush falls within 2000 ms of the leading call.
C4_LeadingWindowOneFlush ==
    /\ Flushed => IsSuffix(lastOp.calls, lastOp.seen)
    /\ (Flushed /\ hist[lastOp.batch].flushes = 1) =>
            lastOp.firstCall = hist[lastOp.batch].lead
    /\ \A k \in Kinds :
        (hist[k].flushes >= 1 /\ hist[k].first # Undefined) =>
            hist[k].first >= hist[k].lead + WAIT

\* A flush has seen the names of two or more calls made since a leading call.
C4_Witness ==
    /\ Flushed
    /\ hist[lastOp.batch].flushes = 1
    /\ Len(lastOp.calls) >= 2

\* C5 as stated: no flush runs on the leading call, and a flush runs only
\* once 2000 ms have passed since the last call.
C5_FlushAfterQuietWindow ==
    /\ (lastOp.kind = "notify" /\ lastOp.leading) => ~lastOp.flushed
    /\ Flushed => lastOp.sinceCall >= WAIT

\* C5 as amended: no flush runs on the leading call, and a flush runs only
\* once 2000 ms have passed since the leading call or the flush before it,
\* whichever is later; calls that keep arriving do not put it off.
C5_FlushAfterMaxWait ==
    /\ (lastOp.kind = "notify" /\ lastOp.leading) => ~lastOp.flushed
    /\ Flushed => lastOp.sinceInvoke >= WAIT

\* A flush ran although the call before it was less than 2000 ms old.
C5_Witness == Flushed /\ lastOp.kind = "timer" /\ lastOp.sinceCall < WAIT

\* C6: a flush that runs with the participant count above the join-silence
\* (leave-silence) threshold emits no notification, also when the buffer is
\* not empty, and leaves the buffer empty.
C6_SilentFlush ==
    (Flushed /\ lastOp.participantCount > Threshold(lastOp.batch)) =>
        /\ lastOp.out = <<>>
        /\ lastOp.threw = "none"
        /\ names[lastOp.batch] = <<>>

\* A flush of a buffer of two names ran above the threshold.
C6_Witness ==
    /\ Flushed
    /\ lastOp.participantCount > Threshold(lastOp.batch)
    /\ Len(lastOp.seen) >= 2

\* C7: in hide(uid, snapshot), when the snapshot declares a mic-mute state
\* (isMicMuted true or false) a mute command for the local audio device
\* carrying that value is issued before the HideEvent is emitted; when it
\* declares none, no mute command is issued.
C7_MuteBeforeHide ==
    lastOp.kind = "hide" =>
        IF lastOp.snapshot.present /\ lastOp.snapshot.props.isMicMuted # "null"
        THEN /\ Len(lastOp.out) = 2
             /\ lastOp.out[1] =
                    [type |-> "MUTE_LOCAL",
                     enable |-> lastOp.snapshot.props.isMicMuted,
                     mediaType |-> "audio"]
             /\ IsHide(lastOp.out[2])
        ELSE ~Emits(lastOp.out, IsMute)

\* hide ran with a snapshot that declares the microphone unmuted.
C7_Witness ==
    /\ lastOp.kind = "hide"
    /\ lastOp.snapshot.present
    /\ lastOp.snapshot.props.isMicMuted = "false"

\* C8: in hide(uid, snapshot) with a snapshot signalling end-of-stream the
\* HideEvent is emitted first and the navigation is triggered exactly once,
\* after the store has taken the HideEvent; navigation is never triggered
\* for a snapshot that does not signal end-of-stream.
C8_NavigateAfterHide ==
    /\ lastOp.kind # "then" => ~Emits(lastOp.out, IsNavigate)
    /\ lastOp.kind = "hide" =>
        /\ IsHide(lastOp.out[Len(lastOp.out)])
        /\ microtasks =
             (IF lastOp.snapshot.present /\ lastOp.snapshot.props.isEndStream
              THEN <<[type |-> "APP_NAVIGATE", uri |-> ""]>> ELSE <<>>)
    /\ lastOp.kind # "hide" => microtasks = <<>>
    /\ lastOp.kind = "then" =>
        /\ lastOp.out = <<[type |-> "APP_NAVIGATE", uri |-> ""]>>
        /\ lastOp.after.kind = "hide"
        /\ lastOp.after.snapshot.present
        /\ lastOp.after.snapshot.props.isEndStream
        /\ IsHide(lastOp.after.out[Len(lastOp.after.out)])

\* The navigation ran after a hide whose snapshot signals end-of-stream and
\* declares a mic-mute state.
C8_Witness ==
    /\ lastOp.kind = "then"
    /\ lastOp.after.snapshot.props.isMicMuted = "true"

\* C9: hide(uid) without a snapshot, for a uid in the Queue or not, raises
\* no error, issues no mute command and no navigation, and emits exactly one
\* HideEvent with that uid and the conference active at hide time; a hide of
\* a uid that is not in the Queue leaves the Queue unchanged.
C9_HideWithoutSnapshot ==
    /\ []((lastOp.kind = "hide" /\ ~lastOp.snapshot.present) =>
            /\ lastOp.threw = "none"
            /\ lastOp.out = <<[type |-> "HIDE_NOTIFICATION",
                               uid |-> lastOp.uid,
                               conference |-> conference]>>
            /\ microtasks = <<>>)
    /\ [][(lastOp'.kind = "hide" /\ ~InQueue(queue, lastOp'.uid)) =>
            queue' = queue]_vars

\* hide ran without snapshot, after the conference had changed, and left a
\* notification with another uid in the queue.
C9_Witness ==
    /\ lastOp.kind = "hide"
    /\ ~lastOp.snapshot.present
    /\ queue # <<>>
    /\ conference = "c2"

C11_ClearOnConferenceNone ==
    /\ [](lastOp.kind = "conference" =>
            IF conference = "none"
            THEN lastOp.out = <<[type |-> "CLEAR_NOTIFICATIONS"]>>
                    /\ queue = <<>>
            ELSE lastOp.out = <<>> /\ Len(queue) = lastOp.cleared)
    /\ [](lastOp.kind = "clear" =>
            lastOp.out = <<[type |-> "CLEAR_NOTIFICATIONS"]>> /\ queue = <<>>)
    /\ [][(conference # "none" /\ conference' = "none") =>
            (lastOp'.kind = "conference" /\ queue' = <<>>)]_vars

\* The conference ended while two notifications were queued.
C11_Witness ==
    /\ lastOp.kind = "conference"
    /\ conference = "none"
    /\ lastOp.cleared = 2

\* C12: show emits a ShowEvent only if no display allow-list is configured
\* or the allow-list holds the payload's descriptionKey or titleKey: with an
\* allow-list that holds neither key, show emits nothing.
C12_ShowOnlyIfAllowed ==
    (lastOp.kind = "show" /\ Emits(lastOp.out, IsShow)) =>
        \/ ~notifications.configured
        \/ lastOp.payload.descriptionKey # ""
                /\ lastOp.payload.descriptionKey \in notifications.keys
        \/ lastOp.payload.titleKey # ""
                /\ lastOp.payload.titleKey \in notifications.keys

\* C13: the ShowEvent carries timeout INSTANT exactly when isMicMuted was
\* determined from the payload (PAUSE_SESSION gives true, RESUME_SESSION
\* gives false) and LONG for every other payload; a displayed PAUSE_SESSION
\* payload yields isMicMuted true, timeout INSTANT and the description
\* "Session is paused".
C13_TimeoutFromMicMuted ==
    (lastOp.kind = "show" /\ Emits(lastOp.out, IsShow)) =>
        LET e == lastOp.out[1]
            dmt == lastOp.payload.description.deviceMessageType
        IN  /\ Len(lastOp.out) = 1
            /\ e.props.isMicMuted =
                    (IF dmt = "PAUSE_SESSION" THEN "true"
                     ELSE IF dmt = "RESUME_SESSION" THEN "false" ELSE "null")
            /\ e.timeout =
                    (IF e.props.isMicMuted # "null" THEN "INSTANT" ELSE "LONG")
            /\ dmt = "PAUSE_SESSION" => e.props.description = "Session is paused"

\* A PAUSE_SESSION payload that was not handled was displayed.
C13_Witness ==
    /\ lastOp.kind = "show"
    /\ Emits(lastOp.out, IsShow)
    /\ lastOp.payload.description.deviceMessageType = "PAUSE_SESSION"
    /\ ~lastOp.payload.description.handledAt

\* C14: getNotificationTimeout maps SHORT to the configured short override
\* when there is one and to the built-in SHORT default otherwise, likewise
\* MEDIUM and LONG, and maps STICKY and every unrecognised or missing type
\* to the STICKY value whatever the overrides are.
C14_TimeoutResolution ==
    lastOp.kind = "getTimeout" =>
        LET nt == lastOp.notificationTimeouts
            Resolved(override, default) ==
                IF nt.configured /\ override # Undefined THEN override
                ELSE default
        IN  lastOp.result =
                CASE lastOp.type = "short" -> Resolved(nt.short, NOTIFICATION_TIMEOUT.SHORT)
                  [] lastOp.type = "medium" -> Resolved(nt.medium, NOTIFICATION_TIMEOUT.MEDIUM)
                  [] lastOp.type = "long" -> Resolved(nt.long, NOTIFICATION_TIMEOUT.LONG)
                  [] OTHER -> NOTIFICATION_TIMEOUT.STICKY

\* The type SHORT was resolved with a configured override of 0 ms.
C14_Witness ==
    /\ lastOp.kind = "getTimeout"
    /\ lastOp.type = "short"
    /\ lastOp.notificationTimeouts.configured
    /\ lastOp.notificationTimeouts.short = 0
    /\ lastOp.result = 0

\* C15: over every sequence of show calls with a uid supplied, hide and
\* clear, no two entries of the Queue have the same uid; a show that
\* displays a payload leaves one entry under the payload's uid, and it is
\* the entry of that call, also when the uid was in the Queue before.
C15_NoDuplicateUid ==
    /\ \A i, j \in 1..Len(queue) : i # j => queue[i].uid # queue[j].uid
    /\ (/\ lastOp.kind = "show"
        /\ Emits(lastOp.out, IsShow)
        /\ lastOp.payload.uid # "") =>
            \E i \in 1..Len(queue) :
                /\ queue[i].uid = lastOp.payload.uid
                /\ queue[i].props = lastOp.out[1].props
                /\ queue[i].timeout = lastOp.out[1].timeout

\* A payload was shown under a uid the Queue held already, with another
\* notification queued besides.
C15_Witness ==
    /\ lastOp.kind = "show"
    /\ lastOp.payload.uid # ""
    /\ lastOp.reused
    /\ Len(queue) = 2

\* C16: show called with an empty payload (none, or an object with no
\* fields) is a silent no-op: it emits no ShowEvent and raises no error.
C16_EmptyPayloadNoOp ==
    (lastOp.kind = "show" /\ lastOp.payload = EmptyPayload) =>
        lastOp.out = <<>> /\ lastOp.threw = "none"

\* C17: when show displays a payload, the description text of the ShowEvent
\* is determined by deviceMessageType: the raw message content for MESSAGE,
\* "Consulation phase has ended" for CONSULTATION_ENDED, "Session is paused"
\* for PAUSE_SESSION, "Session is resumed" for RESUME_SESSION and "Raised a
\* Hand" for every other value.
C17_DescriptionByType ==
    (lastOp.kind = "show" /\ Emits(lastOp.out, IsShow)) =>
        LET d == lastOp.payload.description IN
        lastOp.out[1].props.description =
            (IF d.deviceMessageType = "MESSAGE" THEN d.content
             ELSE IF d.deviceMessageType = "CONSULTATION_ENDED"
             THEN "Consulation phase has ended"
             ELSE IF d.deviceMessageType = "PAUSE_SESSION"
             THEN "Session is paused"
             ELSE IF d.deviceMessageType = "RESUME_SESSION"
             THEN "Session is resumed"
             ELSE "Raised a Hand")

\* A MESSAGE payload was displayed with its content as the description.
C17_Witness ==
    /\ lastOp.kind = "show"
    /\ Emits(lastOp.out, IsShow)
    /\ lastOp.payload.description.deviceMessageType = "MESSAGE"
    /\ lastOp.out[1].props.description = "hello"

\* C18: after every sequence of timer creations, timer firings and hides
\* there is at most one pending auto-hide timer for each uid, also when a
\* timer is created again for a uid whose timer has not run yet.
C18_OneTimerPerUid ==
    \A uid \in TimerUids : Cardinality(PendingTimers(timeouts, uid)) <= 1

\* C19: the Timer Registry holds an entry for a uid only while that uid's
\* auto-hide timer is pending: the entry is gone once the timer has run, and
\* once the notification was hidden through another path, which also cancels
\* the pending timer, so that it emits no later hide.
C19_RegistryOnlyWhilePending ==
    /\ \A uid \in TimerUids :
        timers[uid] # Undefined => timeouts[timers[uid]].pending
    /\ lastOp.kind = "hide" =>
        /\ timers[lastOp.uid] = Undefined
        /\ PendingTimers(timeouts, lastOp.uid) = {}
    /\ lastOp.kind = "timeout" => timers[lastOp.uid] # lastOp.id

\* C20: the middleware forwards every action it receives to the next
\* handler exactly once and returns its result, on every branch: a
\* PARTICIPANT_UPDATED that triggers the moderator notification, one that
\* does not, a PARTICIPANTS_PANE_OPEN (after the hide of the raise-hand
\* notification was dispatched) and every other action.
C20_MiddlewareForwards ==
    lastOp.kind = "middleware" =>
        /\ lastOp.forwarded = 1
        /\ lastOp.threw = "none"
        /\ lastOp.action.type = "PARTICIPANTS_PANE_OPEN" =>
                lastOp.out = <<[type |-> "HIDE_NOTIFICATION",
                                uid |-> RAISE_HAND_NOTIFICATION_ID,
                                conference |-> conference]>>

====
